---- MODULE Spec2Model ----
(***************************************************************************)
(* Model of the appointment backend: three tables (doctor, paciente, cita) *)
(* behind the controllers of doctor.controller.ts, the patient controller  *)
(* and citas.controller.ts.  A handler is an async function: every await   *)
(* of a database call is one atomic step of the database, and the response *)
(* is sent in the step of the handler's last database call.                *)
(***************************************************************************)
EXTENDS Integers, FiniteSets, Sequences, Bags, TLC

\* ------------------------------------------------------------------ bounds
\* Keys of doctors and patients range over 1..MaxId.
MaxId == 2
\* Total number of requests accepted in one behaviour.
MaxRequests == 2

\* Slots of concurrent handler invocations (the event loop interleaves them
\* at their awaits).
Clients == {1, 2}

Ids == 1..MaxId

\* ------------------------------------------------------------ input values
\* Path and query parameters arrive as strings (req.params.id, req.query).
IdStrings == <<"1", "2", "3", "4", "5">>

IdParams == {IdStrings[i] : i \in Ids}

\* The integer a key parameter is compared as in the WHERE clause.
ParseInt(s) == CHOOSE i \in 1..Len(IdStrings) : IdStrings[i] = s

\* Timestamps arrive as strings; a DATE column holds the instant, which is
\* serialised in the ISO form with milliseconds.  Two of the input strings
\* are spellings of the same instant, one used in bodies and one in queries.
BodyDates == {"2024-01-01T10:00:00Z", "2024-01-02T10:00:00Z"}

QueryDates == {"2024-01-01T10:00:00.000Z", "2024-01-02T10:00:00Z"}

ParseDate(s) == IF s \in {"2024-01-02T10:00:00Z", "2024-01-02T10:00:00.000Z"} THEN "2024-01-02T10:00:00.000Z" ELSE "2024-01-01T10:00:00.000Z"

\* DataType.ENUM('medicina_interna', 'medicina_general')
Especialidad == {"medicina_interna", "medicina_general"}

\* findByPk / findOne resolve to null when no row matches.
Null == [null |-> TRUE]

\* ------------------------------------------------------------------ schema
DoctorFields == {"id_profesional", "nombre", "apellido", "correo", "telefono", "especialidad"}

PacienteFields == {"id_numeroCedula", "nombre", "apellido", "fecha_nacimiento", "telefono"}

CitaFields == {"fecha_hora", "id_profesional", "id_numeroCedula"}

DoctorKey == {"id_profesional"}

PacienteKey == {"id_numeroCedula"}

\* Referential actions a foreign key of cita can have been created with: the
\* column is NOT NULL, so a parent row in use is either protected or its
\* appointments follow it.
ReferentialActions == {"RESTRICT", "CASCADE"}

Restrict(f, S) == [x \in S \cap DOMAIN f |-> f[x]]

\* UPDATE ... SET: the columns of values replace those of row.
Merge(row, values) == [x \in DOMAIN row |-> IF x \in DOMAIN values THEN values[x] ELSE row[x]]

\* ------------------------------------------------------------------ tables
\* A table is a bag of rows.
Rows(T) == BagToSet(T)

Match(T, where) == {r \in Rows(T) : \A f \in DOMAIN where : r[f] = where[f]}

RECURSIVE Copies(_, _)
Copies(T, S) == IF S = {} THEN 0 ELSE LET r == CHOOSE x \in S : TRUE IN T[r] + Copies(T, S \ {r})

\* The table with every row r replaced by F[r].
Image(T, F) == [y \in {F[r] : r \in Rows(T)} |-> Copies(T, {r \in Rows(T) : F[r] = y})]

Without(T, S) == [r \in Rows(T) \ S |-> T[r]]

\* PRIMARY KEY (K): no two rows of T agree on the columns K.
UniqueKey(T, K) == \A r \in Rows(T) : T[r] = 1 /\ \A q \in Rows(T) : Restrict(q, K) = Restrict(r, K) => q = r

\* Model.findByPk / Model.findOne
FindOne(T, where) == IF Match(T, where) = {} THEN Null ELSE CHOOSE r \in Match(T, where) : TRUE

\* A handler that skips its existence check.
FoundAlways(row) == TRUE

\* if (doctor) / if (paciente) / if (cita)
Found(row) == row # Null

\* --------------------------------------------------------------- payloads
DoctorRow(i, s, e) == [id_profesional |-> i, nombre |-> s, apellido |-> "Ruiz", correo |-> "a@x.com", telefono |-> "555", especialidad |-> e]

PacienteRow(i, s) == [id_numeroCedula |-> i, nombre |-> s, apellido |-> "Ruiz", fecha_nacimiento |-> "2024-01-01T10:00:00.000Z", telefono |-> "555"]

CitaRow(f, d, p) == [fecha_hora |-> f, id_profesional |-> d, id_numeroCedula |-> p]

\* Bodies of POST /doctores: complete records (one with an especialidad
\* outside the enum) and a record lacking a required field.
DoctorBodies ==
    {DoctorRow(i, "Ana", IF i = 1 THEN "medicina_general" ELSE "medicina_interna") : i \in Ids}
    \cup {DoctorRow(1, "Ana", "cardiologia")}
    \cup {Restrict(DoctorRow(1, "Ana", "medicina_general"), DoctorFields \ {"correo"})}

\* Bodies of PUT /doctores/:id: partial records, the empty record and a
\* complete one.
DoctorChanges ==
    {[especialidad |-> "medicina_interna"], [especialidad |-> "cardiologia"]}
    \cup {[nombre |-> "Eva", telefono |-> "777"], <<>>}
    \cup {[id_profesional |-> i] : i \in Ids}
    \cup {DoctorRow(1, "Eva", "medicina_interna")}

PacienteBodies ==
    {PacienteRow(i, "Ana") : i \in Ids}
    \cup {Restrict(PacienteRow(1, "Ana"), PacienteFields \ {"telefono"})}

PacienteChanges ==
    {[nombre |-> "Eva"], <<>>}
    \cup {[id_numeroCedula |-> i] : i \in Ids}

CitaBodies ==
    {CitaRow(f, d, p) : f \in BodyDates, d \in Ids, p \in Ids}
    \cup {[id_profesional |-> 1, id_numeroCedula |-> 1]}

CitaChanges ==
    {[fecha_hora |-> "2024-01-02T10:00:00Z"], <<>>}
    \cup {[id_profesional |-> 2], CitaRow("2024-01-01T10:00:00Z", 1, 2)}

\* req.query of the cita routes
CitaQueries == [profesional : IdParams, paciente : IdParams, fecha : QueryDates]

\* A request of a cita route that leaves a query parameter out.
CitaPartialQueries == {[profesional |-> "1", paciente |-> "1"]}

\* ------------------------------------------------------------------- state
VARIABLES
    doctor,     \* table 'doctor'
    paciente,   \* table 'paciente'
    cita,       \* table 'cita'
    req,        \* per client: the handler suspended between its two awaits
    nreq,       \* requests accepted so far
    sent,       \* responses sent so far
    out         \* the database call and the response of the last step

vars == <<doctor, paciente, cita, req, nreq, sent, out>>

store == <<doctor, paciente, cita>>

Idle == [handler |-> "none", params |-> <<>>, body |-> <<>>]

\* ------------------------------------------------------ database statements
\* The value a model instance holds for the attributes of a body: unknown
\* attributes are dropped, DATE attributes become instants.
Build(body, fields, dates) == [x \in fields \cap DOMAIN body |-> IF x \in dates THEN ParseDate(body[x]) ELSE body[x]]

\* allowNull: false on every column
NotNull(values, fields) == fields \subseteq DOMAIN values

\* A column declared as a plain string.
EnumUnchecked(values) == TRUE

\* DataType.ENUM on especialidad
EnumOk(values) == "especialidad" \in DOMAIN values => values["especialidad"] \in Especialidad

\* A cita table created without its foreign keys.
ForeignKeysUnchecked(row, D, P) == TRUE

\* @ForeignKey(() => Doctor) and @ForeignKey(() => Paciente) on a cita row
ForeignKeysOk(row, D, P) ==
    /\ \E d \in Rows(D) : d["id_profesional"] = row["id_profesional"]
    /\ \E p \in Rows(P) : p["id_numeroCedula"] = row["id_numeroCedula"]

\* A table created without its primary key.
InsertUnchecked(T, row, K) == TRUE

\* INSERT of one row under PRIMARY KEY (K)
InsertOk(T, row, K) == \A r \in Rows(T) : Restrict(r, K) # Restrict(row, K)

\* The errors a statement can be rejected with: the model's validation runs
\* before the statement is sent, the database checks its constraints.
Errors(valid, unique, references) ==
    IF ~valid THEN {"validation"}
    ELSE (IF unique THEN {} ELSE {"unique"}) \cup (IF references THEN {} ELSE {"foreign_key"})

Result(errors, D, P, C, n) == [errors |-> errors, doctor |-> D, paciente |-> P, cita |-> C, affected |-> n]

\* A create that reports the record without storing it.
DoctorCreateUnsaved(D, P, C, body) ==
    Result(Errors(NotNull(Build(body, DoctorFields, {}), DoctorFields), TRUE, TRUE), D, P, C, 1)

\* Doctor.create(req.body)
DoctorCreate(D, P, C, body) ==
    LET row == Build(body, DoctorFields, {})
    IN  Result(Errors(NotNull(row, DoctorFields) /\ EnumOk(row), InsertOk(D, row, DoctorKey), TRUE),
               D (+) SetToBag({row}), P, C, 1)

\* A create on a paciente table without its primary key.
PacienteCreateUnchecked(D, P, C, body) ==
    LET row == Build(body, PacienteFields, {"fecha_nacimiento"})
    IN  Result(Errors(NotNull(row, PacienteFields), TRUE, TRUE), D, P (+) SetToBag({row}), C, 1)

\* Paciente.create(req.body)
PacienteCreate(D, P, C, body) ==
    LET row == Build(body, PacienteFields, {"fecha_nacimiento"})
    IN  Result(Errors(NotNull(row, PacienteFields), InsertOk(P, row, PacienteKey), TRUE),
               D, P (+) SetToBag({row}), C, 1)

\* A create that refuses a second cita of a doctor at the same time.
CitaCreateNoOverlap(D, P, C, body) ==
    LET row == Build(body, CitaFields, {"fecha_hora"})
    IN  Result(Errors(NotNull(row, CitaFields), InsertOk(C, row, {"fecha_hora", "id_profesional"}),
                      ForeignKeysOk(row, D, P)),
               D, P, C (+) SetToBag({row}), 1)

\* Cita.create(req.body)
CitaCreate(D, P, C, body) ==
    LET row == Build(body, CitaFields, {"fecha_hora"})
    IN  Result(Errors(NotNull(row, CitaFields), InsertOk(C, row, CitaFields), ForeignKeysOk(row, D, P)),
               D, P, C (+) SetToBag({row}), 1)

\* UPDATE of the parent table T (doctor or paciente, key column k) with the
\* cita rows that refer to a row whose key changes.
ParentUpdate(T, C, k, where, values, fk) ==
    LET hit == Match(T, where)
        F == [r \in Rows(T) |-> IF r \in hit THEN Merge(r, values) ELSE r]
        moved == {r \in hit : F[r][k] # r[k]}
        G == [x \in Rows(C) |-> IF \E r \in moved : r[k] = x[k]
                                 THEN [x EXCEPT ![k] = F[CHOOSE r \in moved : r[k] = x[k]][k]]
                                 ELSE x]
        refs == {x \in Rows(C) : G[x] # x}
    IN  [unique |-> UniqueKey(Image(T, F), {k}) /\ UniqueKey(Image(C, G), CitaFields),
         references |-> refs = {} \/ fk = "CASCADE",
         parent |-> Image(T, F), cita |-> Image(C, G), affected |-> Copies(T, hit)]

\* A delete on a schema whose cita table has no foreign keys.
ParentDestroyUnchecked(T, C, k, where, fk) ==
    [references |-> TRUE, parent |-> Without(T, Match(T, where)), cita |-> C,
     affected |-> Copies(T, Match(T, where))]

\* DELETE from the parent table T with the cita rows that refer to a deleted row.
ParentDestroy(T, C, k, where, fk) ==
    LET hit == Match(T, where)
        refs == {x \in Rows(C) : \E r \in hit : r[k] = x[k]}
    IN  [references |-> refs = {} \/ fk = "CASCADE",
         parent |-> Without(T, hit), cita |-> Without(C, refs), affected |-> Copies(T, hit)]

\* An update that replaces the row by the body instead of merging it.
DoctorUpdateOverwrite(D, P, C, id, body, fk) ==
    LET hit == Match(D, [id_profesional |-> ParseInt(id)])
    IN  Result({}, IF hit = {} THEN D ELSE Without(D, hit) (+) SetToBag({Build(body, DoctorFields, {})}),
               P, C, Copies(D, hit))

\* Doctor.update(req.body, { where: { id_profesional: req.params.id } })
DoctorUpdate(D, P, C, id, body, fk) ==
    LET values == Build(body, DoctorFields, {})
        u == ParentUpdate(D, C, "id_profesional", [id_profesional |-> ParseInt(id)], values, fk)
    IN  IF DOMAIN values = {} THEN Result({}, D, P, C, 0)
        ELSE Result(Errors(EnumOk(values), u.unique, u.references), u.parent, P, u.cita, u.affected)

\* A delete that leaves the row in place.
DoctorDestroySoft(D, P, C, id, fk) ==
    Result({}, D, P, C, Copies(D, Match(D, [id_profesional |-> ParseInt(id)])))

\* Doctor.destroy({ where: { id_profesional: req.params.id } })
DoctorDestroy(D, P, C, id, fk) ==
    LET u == ParentDestroy(D, C, "id_profesional", [id_profesional |-> ParseInt(id)], fk)
    IN  Result(Errors(TRUE, TRUE, u.references), u.parent, P, u.cita, u.affected)

\* Paciente.update(req.body, { where: { id_numeroCedula: req.params.id } })
PacienteUpdate(D, P, C, id, body, fk) ==
    LET values == Build(body, PacienteFields, {"fecha_nacimiento"})
        u == ParentUpdate(P, C, "id_numeroCedula", [id_numeroCedula |-> ParseInt(id)], values, fk)
    IN  IF DOMAIN values = {} THEN Result({}, D, P, C, 0)
        ELSE Result(Errors(TRUE, u.unique, u.references), D, u.parent, u.cita, u.affected)

\* Paciente.destroy({ where: { id_numeroCedula: req.params.id } })
PacienteDestroy(D, P, C, id, fk) ==
    LET u == ParentDestroy(P, C, "id_numeroCedula", [id_numeroCedula |-> ParseInt(id)], fk)
    IN  Result(Errors(TRUE, TRUE, u.references), D, u.parent, u.cita, u.affected)

\* A where clause that compares the timestamp as the string it arrived as.
CitaWhereRaw(q) == [fecha_hora |-> q.fecha, id_profesional |-> ParseInt(q.profesional), id_numeroCedula |-> ParseInt(q.paciente)]

\* where: { fecha_hora: fecha, id_profesional: profesional, id_numeroCedula: paciente }
CitaWhere(q) == [fecha_hora |-> ParseDate(q.fecha), id_profesional |-> ParseInt(q.profesional), id_numeroCedula |-> ParseInt(q.paciente)]

\* Cita.update(req.body, { where: ... })
CitaUpdate(D, P, C, q, body) ==
    LET values == Build(body, CitaFields, {"fecha_hora"})
        hit == Match(C, CitaWhere(q))
        F == [r \in Rows(C) |-> IF r \in hit THEN Merge(r, values) ELSE r]
    IN  IF DOMAIN values = {} THEN Result({}, D, P, C, 0)
        ELSE Result(Errors(TRUE, UniqueKey(Image(C, F), CitaFields), \A r \in hit : ForeignKeysOk(F[r], D, P)),
                    D, P, Image(C, F), Copies(C, hit))

\* A delete whose where clause names the doctor only.
CitaDestroyByDoctor(D, P, C, q) ==
    LET hit == Match(C, [id_profesional |-> ParseInt(q.profesional)])
    IN  Result({}, D, P, Without(C, hit), Copies(C, hit))

\* Cita.destroy({ where: ... })
CitaDestroy(D, P, C, q) ==
    LET hit == Match(C, CitaWhere(q))
    IN  Result({}, D, P, Without(C, hit), Copies(C, hit))

\* ---------------------------------------------------------------- handlers
\* A request starts a handler in the first free slot.
Accept(c) ==
    /\ req[c] = Idle
    /\ \A b \in Clients : b < c => req[b] # Idle
    /\ nreq < MaxRequests
    /\ nreq' = nreq + 1

\* res.status(status).json({ message, data }): the handler ends.
Reply(c, h, stmt, params, status, n, data) ==
    /\ req' = [req EXCEPT ![c] = Idle]
    /\ sent' = sent + 1
    /\ out' = [handler |-> h, stmt |-> stmt, params |-> params, status |-> status,
               affected |-> n, data |-> data, error |-> "none"]

\* A catch block that answers and lets the handler go on.
CatchAndGoOn(c, h, stmt, params, e) ==
    /\ req' = req
    /\ sent' = sent + 1
    /\ out' = [handler |-> h, stmt |-> stmt, params |-> params, status |-> 500,
               affected |-> 0, data |-> Null, error |-> e]

\* catch (error) { res.status(500).json({ message, error: error.message }) }
Catch(c, h, stmt, params, e) ==
    /\ req' = [req EXCEPT ![c] = Idle]
    /\ sent' = sent + 1
    /\ out' = [handler |-> h, stmt |-> stmt, params |-> params, status |-> 500,
               affected |-> 0, data |-> Null, error |-> e]

\* The handler passed its existence check and awaits its second statement.
Suspend(c, h, stmt, params, body) ==
    /\ req' = [req EXCEPT ![c] = [handler |-> h, params |-> params, body |-> body]]
    /\ sent' = sent
    /\ out' = [handler |-> h, stmt |-> stmt, params |-> params, status |-> 0,
               affected |-> 0, data |-> Null, error |-> "none"]

\* A handler that answers by the number of rows its statement affected.
CommitAffected(c, h, stmt, params, r, status, data) ==
    IF r.errors = {}
    THEN /\ doctor' = r.doctor /\ paciente' = r.paciente /\ cita' = r.cita
         /\ Reply(c, h, stmt, params, IF r.affected = 0 /\ stmt # "create" THEN 404 ELSE status, r.affected, data)
    ELSE /\ UNCHANGED store
         /\ \E e \in r.errors : Catch(c, h, stmt, params, e)

\* A statement's effect is kept when it succeeds; a rejected statement
\* changes nothing and throws into the catch block.
Commit(c, h, stmt, params, r, status, data) ==
    IF r.errors = {}
    THEN /\ doctor' = r.doctor /\ paciente' = r.paciente /\ cita' = r.cita
         /\ Reply(c, h, stmt, params, status, r.affected, data)
    ELSE /\ UNCHANGED store
         /\ \E e \in r.errors : Catch(c, h, stmt, params, e)

\* The existence check of the by-key handlers: 404 when no row is found.
Lookup(c, h, stmt, row, params, body) ==
    /\ UNCHANGED store
    /\ IF Found(row)
       THEN Suspend(c, h, stmt, params, body)
       ELSE Reply(c, h, stmt, params, 404, 0, Null)

\* The read-only by-key handlers: the row, or 404.
Fetch(c, h, stmt, row, params) ==
    /\ UNCHANGED store
    /\ IF Found(row)
       THEN Reply(c, h, stmt, params, 200, 0, row)
       ELSE Reply(c, h, stmt, params, 404, 0, Null)

\* const { profesional, paciente, fecha } = req.query: all three are given.
Defined(q) == {"profesional", "paciente", "fecha"} \subseteq DOMAIN q

\* Cita.findOne with an undefined value in its where clause: the query
\* builder refuses it, or it is a condition that no row meets.
FindOneUndefined(c, h, q) ==
    /\ UNCHANGED store
    /\ \/ Catch(c, h, "findOne", q, "where")
       \/ Reply(c, h, "findOne", q, 404, 0, Null)

\* The list handlers: all rows of a table.
List(c, h, T) ==
    /\ UNCHANGED store
    /\ Reply(c, h, "findAll", <<>>, 200, 0, [rows |-> T])

getDoctores(c) == Accept(c) /\ List(c, "getDoctores", doctor)

getDoctorById(c, id) ==
    /\ Accept(c)
    /\ Fetch(c, "getDoctorById", "findByPk", FindOne(doctor, [id_profesional |-> ParseInt(id)]), [id |-> id])

createDoctor(c, body) ==
    /\ Accept(c)
    /\ Commit(c, "createDoctor", "create", <<>>, DoctorCreate(doctor, paciente, cita, body),
              201, Build(body, DoctorFields, {}))

updateDoctorFindByPk(c, id, body) ==
    /\ Accept(c)
    /\ Lookup(c, "updateDoctor", "findByPk", FindOne(doctor, [id_profesional |-> ParseInt(id)]),
              [id |-> id], body)

updateDoctorUpdate(c, fk) ==
    /\ req[c].handler = "updateDoctor"
    /\ UNCHANGED nreq
    /\ Commit(c, "updateDoctor", "update", req[c].params,
              DoctorUpdate(doctor, paciente, cita, req[c].params.id, req[c].body, fk), 200, Null)

deleteDoctorFindByPk(c, id) ==
    /\ Accept(c)
    /\ Lookup(c, "deleteDoctor", "findByPk", FindOne(doctor, [id_profesional |-> ParseInt(id)]),
              [id |-> id], <<>>)

deleteDoctorDestroy(c, fk) ==
    /\ req[c].handler = "deleteDoctor"
    /\ UNCHANGED nreq
    /\ Commit(c, "deleteDoctor", "destroy", req[c].params,
              DoctorDestroy(doctor, paciente, cita, req[c].params.id, fk), 200, Null)

getPacientes(c) == Accept(c) /\ List(c, "getPacientes", paciente)

getPacienteById(c, id) ==
    /\ Accept(c)
    /\ Fetch(c, "getPacienteById", "findByPk", FindOne(paciente, [id_numeroCedula |-> ParseInt(id)]), [id |-> id])

createPaciente(c, body) ==
    /\ Accept(c)
    /\ Commit(c, "createPaciente", "create", <<>>, PacienteCreate(doctor, paciente, cita, body),
              201, Build(body, PacienteFields, {"fecha_nacimiento"}))

updatePacienteFindByPk(c, id, body) ==
    /\ Accept(c)
    /\ Lookup(c, "updatePaciente", "findByPk", FindOne(paciente, [id_numeroCedula |-> ParseInt(id)]),
              [id |-> id], body)

updatePacienteUpdate(c, fk) ==
    /\ req[c].handler = "updatePaciente"
    /\ UNCHANGED nreq
    /\ Commit(c, "updatePaciente", "update", req[c].params,
              PacienteUpdate(doctor, paciente, cita, req[c].params.id, req[c].body, fk), 200, Null)

deletePacienteFindByPk(c, id) ==
    /\ Accept(c)
    /\ Lookup(c, "deletePaciente", "findByPk", FindOne(paciente, [id_numeroCedula |-> ParseInt(id)]),
              [id |-> id], <<>>)

deletePacienteDestroy(c, fk) ==
    /\ req[c].handler = "deletePaciente"
    /\ UNCHANGED nreq
    /\ Commit(c, "deletePaciente", "destroy", req[c].params,
              PacienteDestroy(doctor, paciente, cita, req[c].params.id, fk), 200, Null)

getCitas(c) == Accept(c) /\ List(c, "getCitas", cita)

getOneCita(c, q) ==
    /\ Accept(c)
    /\ IF Defined(q)
       THEN Fetch(c, "getOneCita", "findOne", FindOne(cita, CitaWhere(q)), q)
       ELSE FindOneUndefined(c, "getOneCita", q)

createCita(c, body) ==
    /\ Accept(c)
    /\ Commit(c, "createCita", "create", <<>>, CitaCreate(doctor, paciente, cita, body),
              201, Build(body, CitaFields, {"fecha_hora"}))

updateCitaFindOne(c, q, body) ==
    /\ Accept(c)
    /\ IF Defined(q)
       THEN Lookup(c, "updateCita", "findOne", FindOne(cita, CitaWhere(q)), q, body)
       ELSE FindOneUndefined(c, "updateCita", q)

updateCitaUpdate(c) ==
    /\ req[c].handler = "updateCita"
    /\ UNCHANGED nreq
    /\ Commit(c, "updateCita", "update", req[c].params,
              CitaUpdate(doctor, paciente, cita, req[c].params, req[c].body), 200, Null)

deleteCitaFindOne(c, q) ==
    /\ Accept(c)
    /\ IF Defined(q)
       THEN Lookup(c, "deleteCita", "findOne", FindOne(cita, CitaWhere(q)), q, <<>>)
       ELSE FindOneUndefined(c, "deleteCita", q)

deleteCitaDestroy(c) ==
    /\ req[c].handler = "deleteCita"
    /\ UNCHANGED nreq
    /\ Commit(c, "deleteCita", "destroy", req[c].params,
              CitaDestroy(doctor, paciente, cita, req[c].params), 200, Null)

\* ----------------------------------------------------------- specification
\* The tables outlive the process: it starts on an empty database or on one
\* filled by earlier requests.
SeedStores ==
    { <<EmptyBag, EmptyBag, EmptyBag>>,
      <<SetToBag({DoctorRow(1, "Ana", "medicina_general")}),
        SetToBag({PacienteRow(1, "Ana")}),
        EmptyBag>>,
      <<SetToBag({DoctorRow(i, "Ana", "medicina_general") : i \in 1..2}),
        SetToBag({PacienteRow(i, "Ana") : i \in 1..2}),
        SetToBag({CitaRow("2024-01-01T10:00:00.000Z", 1, 1)})>> }

Init ==
    /\ \E s \in SeedStores : doctor = s[1] /\ paciente = s[2] /\ cita = s[3]
    /\ req = [c \in Clients |-> Idle]
    /\ nreq = 0
    /\ sent = 0
    /\ out = [handler |-> "none", stmt |-> "none", params |-> <<>>, status |-> 0,
              affected |-> 0, data |-> Null, error |-> "none"]

\* Slot c can take a request.
Free(c) == req[c] = Idle /\ nreq < MaxRequests

\* Slot c holds a handler that awaits its second statement.
Busy(c) == req[c] # Idle

Next ==
    \E c \in Clients :
        \/ Free(c) /\ getDoctores(c)
        \/ Free(c) /\ \E id \in IdParams : getDoctorById(c, id)
        \/ Free(c) /\ \E body \in DoctorBodies : createDoctor(c, body)
        \/ Free(c) /\ \E id \in IdParams, body \in DoctorChanges : updateDoctorFindByPk(c, id, body)
        \/ Busy(c) /\ \E fk \in ReferentialActions : updateDoctorUpdate(c, fk)
        \/ Free(c) /\ \E id \in IdParams : deleteDoctorFindByPk(c, id)
        \/ Busy(c) /\ \E fk \in ReferentialActions : deleteDoctorDestroy(c, fk)
        \/ Free(c) /\ getPacientes(c)
        \/ Free(c) /\ \E id \in IdParams : getPacienteById(c, id)
        \/ Free(c) /\ \E body \in PacienteBodies : createPaciente(c, body)
        \/ Free(c) /\ \E id \in IdParams, body \in PacienteChanges : updatePacienteFindByPk(c, id, body)
        \/ Busy(c) /\ \E fk \in ReferentialActions : updatePacienteUpdate(c, fk)
        \/ Free(c) /\ \E id \in IdParams : deletePacienteFindByPk(c, id)
        \/ Busy(c) /\ \E fk \in ReferentialActions : deletePacienteDestroy(c, fk)
        \/ Free(c) /\ getCitas(c)
        \/ Free(c) /\ \E q \in CitaQueries \cup CitaPartialQueries : getOneCita(c, q)
        \/ Free(c) /\ \E body \in CitaBodies : createCita(c, body)
        \/ Free(c) /\ \E q \in CitaQueries \cup CitaPartialQueries, body \in CitaChanges : updateCitaFindOne(c, q, body)
        \/ Busy(c) /\ updateCitaUpdate(c)
        \/ Free(c) /\ \E q \in CitaQueries \cup CitaPartialQueries : deleteCitaFindOne(c, q)
        \/ Busy(c) /\ deleteCitaDestroy(c)

Spec == Init /\ [][Next]_vars

\* ------------------------------------------------------------------ claims
NoDoctorRow(id) == Match(doctor, [id_profesional |-> ParseInt(id)]) = {}

NoPacienteRow(id) == Match(paciente, [id_numeroCedula |-> ParseInt(id)]) = {}

NotFound(c) == out'.status = 404 /\ out'.stmt = "findByPk" /\ req'[c] = Idle /\ UNCHANGED store

\* C1: for a key with no matching row, getDoctorById, updateDoctor and
\* deleteDoctor, and getPacienteById, updatePaciente and deletePaciente,
\* answer 404 after their look-up, end there (no update or destroy is
\* issued) and leave the three tables unchanged.
C1_NotFound ==
    [][\A c \in Clients, id \in IdParams :
        /\ (/\ out'.handler \in {"getDoctorById", "updateDoctor", "deleteDoctor"}
            /\ \/ getDoctorById(c, id)
               \/ \E body \in DoctorChanges : updateDoctorFindByPk(c, id, body)
               \/ deleteDoctorFindByPk(c, id)
            /\ NoDoctorRow(id))
           => NotFound(c)
        /\ (/\ out'.handler \in {"getPacienteById", "updatePaciente", "deletePaciente"}
            /\ \/ getPacienteById(c, id)
               \/ \E body \in PacienteChanges : updatePacienteFindByPk(c, id, body)
               \/ deletePacienteFindByPk(c, id)
            /\ NoPacienteRow(id))
           => NotFound(c)]_vars

\* An update of a missing patient was answered 404 while other rows exist.
C1_Witness ==
    /\ out.handler = "updatePaciente" /\ out.status = 404
    /\ Rows(paciente) # {} /\ Rows(doctor) # {}

\* C2: in every reachable state every stored cita refers to a stored doctor
\* and to a stored paciente.
C2_ForeignKeys ==
    \A x \in Rows(cita) :
        /\ \E d \in Rows(doctor) : d.id_profesional = x.id_profesional
        /\ \E p \in Rows(paciente) : p.id_numeroCedula = x.id_numeroCedula

\* The delete of a doctor that a cita refers to was refused by the foreign
\* key, and the cita is still stored.
C2_Witness ==
    /\ out.handler = "deleteDoctor" /\ out.stmt = "destroy"
    /\ out.status = 500 /\ out.error = "foreign_key"
    /\ Rows(cita) # {}

NoDuplicateCita == \A x \in Rows(cita) : cita[x] = 1

StoredTriple(body) ==
    /\ CitaFields \subseteq DOMAIN body
    /\ \E x \in Rows(cita) :
        /\ x.fecha_hora = ParseDate(body.fecha_hora)
        /\ x.id_profesional = body.id_profesional
        /\ x.id_numeroCedula = body.id_numeroCedula

\* C3: no two stored citas have the same (fecha_hora, id_profesional,
\* id_numeroCedula), and createCita with a triple that is already stored
\* answers 500 and leaves the three tables unchanged.
C3_UniqueTriple ==
    [][/\ NoDuplicateCita
       /\ NoDuplicateCita'
       /\ \A c \in Clients, body \in CitaBodies :
            (out'.handler = "createCita" /\ createCita(c, body) /\ StoredTriple(body))
            => (out'.status = 500 /\ UNCHANGED store)]_vars

\* A createCita was rejected by the primary key of cita.
C3_Witness ==
    /\ out.handler = "createCita" /\ out.status = 500 /\ out.error = "unique"
    /\ Rows(cita) # {}

\* The row a suspended handler found is gone.
RowGone(r) ==
    CASE r.handler \in {"updateDoctor", "deleteDoctor"} -> NoDoctorRow(r.params.id)
      [] r.handler \in {"updatePaciente", "deletePaciente"} -> NoPacienteRow(r.params.id)
      [] r.handler \in {"updateCita", "deleteCita"} -> Match(cita, CitaWhere(r.params)) = {}
      [] OTHER -> FALSE

\* C4: the existence check and the mutating statement are separate steps, so
\* a handler that passed its check can run its statement after the row is
\* gone: the statement then affects no row, changes nothing, and the handler
\* still answers 200 (an update can still be refused by validation).
C4_Race ==
    [][\A c \in Clients :
        (/\ out'.stmt \in {"update", "destroy"}
         /\ Busy(c) /\ req'[c] = Idle
         /\ RowGone(req[c]))
        => /\ UNCHANGED store
           /\ out'.affected = 0
           /\ out'.stmt = "destroy" => out'.status = 200
           /\ out'.stmt = "update" => (out'.status = 200 \/ out'.error = "validation")]_vars

\* Two deleteDoctor requests on the only doctor both passed their checks;
\* the first removed the row and the second has just answered 200 for no row.
C4_Witness ==
    /\ out.handler = "deleteDoctor" /\ out.stmt = "destroy"
    /\ out.status = 200 /\ out.affected = 0
    /\ nreq = 2 /\ \A c \in Clients : req[c] = Idle
    /\ Rows(doctor) = {} /\ Rows(paciente) # {}

DoctorStored(i) == \E d \in Rows(doctor) : d.id_profesional = i

PacienteStored(i) == \E p \in Rows(paciente) : p.id_numeroCedula = i

ValidNewDoctor(body) ==
    /\ DOMAIN body = DoctorFields
    /\ body.especialidad \in {"medicina_interna", "medicina_general"}
    /\ ~DoctorStored(body.id_profesional)

\* C5: createDoctor with a complete payload whose especialidad is in the
\* enum and whose key is not stored answers 201 with the payload, and a
\* getDoctorById of that key in the next step answers 200 with the same
\* record.
C5_CreateThenGet ==
    [][\A c \in Clients :
        /\ \A body \in DoctorBodies :
            (out'.handler = "createDoctor" /\ createDoctor(c, body) /\ ValidNewDoctor(body))
            => (out'.status = 201 /\ out'.data = body)
        /\ \A id \in IdParams :
            (/\ out.handler = "createDoctor" /\ out.status = 201
             /\ out'.handler = "getDoctorById" /\ getDoctorById(c, id)
             /\ ParseInt(id) = out.data.id_profesional)
            => (out'.status = 200 /\ out'.data = out.data)]_vars

\* On an empty database a doctor was created and then fetched.
C5_Witness ==
    /\ out.handler = "getDoctorById" /\ out.status = 200
    /\ nreq = 2 /\ Rows(paciente) = {}
    /\ Rows(doctor) = {out.data}

ValidNewCita(body) ==
    /\ DOMAIN body = CitaFields
    /\ DoctorStored(body.id_profesional)
    /\ PacienteStored(body.id_numeroCedula)
    /\ ~StoredTriple(body)

SameTriple(q, row) ==
    /\ ParseInt(q.profesional) = row.id_profesional
    /\ ParseInt(q.paciente) = row.id_numeroCedula
    /\ ParseDate(q.fecha) = row.fecha_hora

\* C6: createCita with a payload that refers to a stored doctor and a stored
\* paciente and whose triple is not stored answers 201 with the record, and
\* a getOneCita with the same triple in the next step answers 200 with the
\* same record.
C6_CreateThenFind ==
    [][\A c \in Clients :
        /\ \A body \in CitaBodies :
            (out'.handler = "createCita" /\ createCita(c, body) /\ ValidNewCita(body))
            => /\ out'.status = 201
               /\ out'.data = CitaRow(ParseDate(body.fecha_hora), body.id_profesional, body.id_numeroCedula)
        /\ \A q \in CitaQueries :
            (/\ out.handler = "createCita" /\ out.status = 201
             /\ out'.handler = "getOneCita" /\ getOneCita(c, q)
             /\ SameTriple(q, out.data))
            => (out'.status = 200 /\ out'.data = out.data)]_vars

\* With one doctor and one paciente stored, a cita was created and then found.
C6_Witness ==
    /\ out.handler = "getOneCita" /\ out.status = 200
    /\ nreq = 2 /\ Cardinality(Rows(doctor)) = 1 /\ Cardinality(Rows(paciente)) = 1
    /\ Rows(cita) = {out.data}

Referred(id) == \E x \in Rows(cita) : x.id_profesional = ParseInt(id)

\* What follows a deleteDoctor that answered 200: the same key is not found.
AfterDelete(c) ==
    (out.handler = "deleteDoctor" /\ out.status = 200)
    => /\ (out'.handler = "deleteDoctor" /\ deleteDoctorFindByPk(c, out.params.id))
          => out'.status = 404
       /\ (out'.handler = "getDoctorById" /\ getDoctorById(c, out.params.id))
          => out'.status = 404

NoDoctorRowAfter(id) == Match(doctor', [id_profesional |-> ParseInt(id)]) = {}

\* The destroy step of deleteDoctor in slot c.
Destroys(c) ==
    /\ out'.handler = "deleteDoctor" /\ out'.stmt = "destroy"
    /\ req[c].handler = "deleteDoctor" /\ req'[c] = Idle

\* C7 as stated: deleteDoctor on an existing row answers 200 and removes
\* the row; a second deleteDoctor of the key right after it answers 404, and
\* so does a getDoctorById.
C7_Original ==
    [][\A c \in Clients :
        /\ (Destroys(c) /\ ~NoDoctorRow(req[c].params.id))
           => (out'.status = 200 /\ NoDoctorRowAfter(req[c].params.id))
        /\ AfterDelete(c)]_vars

\* C7 as amended: deleteDoctor on an existing row that no cita refers to
\* answers 200; whenever deleteDoctor answers 200 the row is gone; a second
\* deleteDoctor of the key right after it answers 404, and so does a
\* getDoctorById.
C7_DeleteTwice ==
    [][\A c \in Clients :
        /\ (Destroys(c) /\ ~NoDoctorRow(req[c].params.id) /\ ~Referred(req[c].params.id))
           => out'.status = 200
        /\ (Destroys(c) /\ out'.status = 200)
           => NoDoctorRowAfter(req[c].params.id)
        /\ (Destroys(c) /\ out'.status # 200)
           => (out'.status = 500 /\ out'.error = "foreign_key" /\ UNCHANGED store)
        /\ AfterDelete(c)]_vars

\* Of two stored doctors the one without a cita was deleted, and the second
\* deleteDoctor of its key has just answered 404.
C7_Witness ==
    /\ out.handler = "deleteDoctor" /\ out.status = 404
    /\ nreq = 2 /\ Cardinality(Rows(doctor)) = 1 /\ Cardinality(Rows(paciente)) = 2
    /\ Rows(cita) # {}

BadEspecialidad(body) ==
    /\ "especialidad" \in DOMAIN body
    /\ body.especialidad \notin {"medicina_interna", "medicina_general"}

EspecialidadStored == \A d \in Rows(doctor) : d.especialidad \in {"medicina_interna", "medicina_general"}

\* C8: every stored doctor has an especialidad of the enum, and createDoctor
\* with another especialidad answers 500 and leaves the tables unchanged.
C8_Especialidad ==
    [][/\ EspecialidadStored
       /\ EspecialidadStored'
       /\ \A c \in Clients, body \in DoctorBodies :
            (out'.handler = "createDoctor" /\ createDoctor(c, body) /\ BadEspecialidad(body))
            => (out'.status = 500 /\ UNCHANGED store)]_vars

\* An updateDoctor that sets an especialidad outside the enum was refused.
C8_Witness ==
    /\ out.handler = "updateDoctor" /\ out.stmt = "update"
    /\ out.status = 500 /\ out.error = "validation"
    /\ Rows(doctor) # {}

DanglingCita(body) ==
    \/ "id_profesional" \in DOMAIN body /\ ~DoctorStored(body.id_profesional)
    \/ "id_numeroCedula" \in DOMAIN body /\ ~PacienteStored(body.id_numeroCedula)

\* C9: createCita with an id_profesional or an id_numeroCedula that is not
\* stored answers 500 and leaves the three tables unchanged.
C9_DanglingRejected ==
    [][\A c \in Clients, body \in CitaBodies :
        (out'.handler = "createCita" /\ createCita(c, body) /\ DanglingCita(body))
        => (out'.status = 500 /\ UNCHANGED store)]_vars

\* A createCita was refused by a foreign key.
C9_Witness ==
    /\ out.handler = "createCita" /\ out.status = 500 /\ out.error = "foreign_key"

\* The update step of updateDoctor in slot c.
Updates(c) ==
    /\ out'.handler = "updateDoctor" /\ out'.stmt = "update"
    /\ req[c].handler = "updateDoctor" /\ req'[c] = Idle

\* Row r after a partial update of the row with key id by body.
Patched(r, id, body) ==
    IF r.id_profesional = ParseInt(id)
    THEN [f \in DoctorFields |-> IF f \in DOMAIN body THEN body[f] ELSE r[f]]
    ELSE r

PartialUpdate(id, body) ==
    /\ out'.status = 200
    /\ doctor' = [e \in {Patched(r, id, body) : r \in Rows(doctor)} |-> 1]
    /\ paciente' = paciente

\* C10 as stated: updateDoctor on a key whose row exists answers 200, the
\* row takes the payload's values for exactly the fields of the payload and
\* keeps the others, and every other doctor and every paciente is unchanged.
C10_Original ==
    [][\A c \in Clients :
        (Updates(c) /\ ~NoDoctorRow(req[c].params.id))
        => PartialUpdate(req[c].params.id, req[c].body)]_vars

\* The payload violates no constraint of the doctor table: its especialidad
\* is in the enum, and its id_profesional is the row's own key or a key that
\* is not stored while no cita refers to the row.
Applicable(id, body) ==
    /\ ~BadEspecialidad(body)
    /\ "id_profesional" \in DOMAIN body =>
        \/ body.id_profesional = ParseInt(id)
        \/ ~DoctorStored(body.id_profesional) /\ ~Referred(id)

\* C10 as amended: the same, for a payload that violates no constraint of
\* the doctor table; any updateDoctor that does not answer 200 answers 500
\* and leaves the tables unchanged.
C10_PartialUpdate ==
    [][\A c \in Clients :
        /\ (Updates(c) /\ ~NoDoctorRow(req[c].params.id) /\ Applicable(req[c].params.id, req[c].body))
           => PartialUpdate(req[c].params.id, req[c].body)
        /\ (Updates(c) /\ out'.status # 200)
           => (out'.status = 500 /\ UNCHANGED store)]_vars

\* A payload of nombre and telefono was applied to one of two doctors: the
\* row has the new nombre and telefono and its old especialidad and apellido.
C10_Witness ==
    /\ out.handler = "updateDoctor" /\ out.stmt = "update"
    /\ out.status = 200 /\ out.affected = 1
    /\ Cardinality(Rows(doctor)) = 2
    /\ \E d \in Rows(doctor) :
        /\ d.nombre = "Eva" /\ d.telefono = "777"
        /\ d.apellido = "Ruiz" /\ d.especialidad = "medicina_general"

\* The look-up step of updateCita or deleteCita for a full triple.
CitaLooksUp ==
    /\ out'.handler \in {"updateCita", "deleteCita"} /\ out'.stmt = "findOne"
    /\ nreq' = nreq + 1 /\ Defined(out'.params)

\* The update or destroy step of updateCita or deleteCita in slot c.
CitaWrites(c) ==
    /\ out'.handler \in {"updateCita", "deleteCita"} /\ out'.stmt \in {"update", "destroy"}
    /\ req[c].handler = out'.handler /\ req'[c] = Idle

\* The look-up answers 404 and ends the request when no cita has the triple
\* of the query, and lets the handler go on when one has it.
CitaLookedUp ==
    /\ UNCHANGED store
    /\ IF Match(cita, CitaWhere(out'.params)) = {}
       THEN out'.status = 404 /\ req' = req
       ELSE \E c \in Clients : req[c] = Idle /\ req'[c].handler = out'.handler /\ req'[c].params = out'.params

\* Rows of cita outside the triple of query q, and the other tables, are as
\* they were.
OnlyMatching(q) ==
    /\ doctor' = doctor /\ paciente' = paciente
    /\ \A r \in Rows(cita) \ Match(cita, CitaWhere(q)) : r \in DOMAIN cita' /\ cita'[r] = cita[r]
    /\ Cardinality(Rows(cita')) <= Cardinality(Rows(cita))

\* C11 as stated: updateCita and deleteCita look the row up by the triple
\* of the query; when no cita has it they answer 404, issue no statement and
\* change nothing; when one has it the update or delete touches only rows
\* with that triple and the handler answers 200.
C11_Original ==
    [][/\ CitaLooksUp => CitaLookedUp
       /\ \A c \in Clients :
            CitaWrites(c) => (OnlyMatching(req[c].params) /\ out'.status = 200)]_vars

\* Row r of cita after an update by body.
CitaPatched(r, body) ==
    [f \in CitaFields |->
        IF f \notin DOMAIN body THEN r[f]
        ELSE IF f = "fecha_hora" THEN ParseDate(body[f]) ELSE body[f]]

\* The update of the rows with the triple of q by body violates no
\* constraint of cita: the new row refers to a stored doctor and a stored
\* paciente and its triple is its own or not stored.
CitaApplicable(q, body) ==
    \A r \in Match(cita, CitaWhere(q)) :
        LET n == CitaPatched(r, body)
        IN  /\ DoctorStored(n.id_profesional) /\ PacienteStored(n.id_numeroCedula)
            /\ n = r \/ n \notin Rows(cita)

CitaUpdated(q, body) ==
    cita' = [n \in {IF r \in Match(cita, CitaWhere(q)) THEN CitaPatched(r, body) ELSE r : r \in Rows(cita)} |-> 1]

\* C11 as amended: the same, but the answer of the statement is 200 for
\* deleteCita, which leaves no row with the triple, and for an updateCita
\* whose payload violates no constraint of cita, which sets the payload's
\* fields in the rows with the triple; any other updateCita answers 500 and
\* changes nothing.
C11_CompositeKey ==
    [][/\ CitaLooksUp => CitaLookedUp
       /\ \A c \in Clients :
            CitaWrites(c) =>
                /\ OnlyMatching(req[c].params)
                /\ out'.stmt = "destroy" =>
                    (out'.status = 200 /\ Match(cita', CitaWhere(req[c].params)) = {})
                /\ (out'.stmt = "update" /\ CitaApplicable(req[c].params, req[c].body)) =>
                    (out'.status = 200 /\ CitaUpdated(req[c].params, req[c].body))
                /\ out'.status # 200 => (out'.status = 500 /\ UNCHANGED store)]_vars

\* One of two stored citas was deleted by its triple; the other is still
\* stored.
C11_Witness ==
    /\ out.handler = "deleteCita" /\ out.stmt = "destroy"
    /\ out.status = 200 /\ out.affected = 1
    /\ nreq = 2 /\ Cardinality(Rows(cita)) = 1
    /\ CitaRow("2024-01-01T10:00:00.000Z", 1, 1) \notin Rows(cita)

\* The handlers that await their second database call.
Awaiting == {c \in Clients : req[c] # Idle}

\* Every accepted request has been answered once or awaits a database call.
OneResponseEach == nreq = sent + Cardinality(Awaiting)

\* The step's database call ended its request with one response: the
\* request is in no slot any more, so it makes no further call.
Ended ==
    /\ sent' = sent + 1
    /\ Cardinality(Awaiting') = Cardinality(Awaiting) - (IF nreq' = nreq THEN 1 ELSE 0)

\* C12: every handler invocation ends with exactly one response.  A database
\* call that fails, be it the existence check or the mutating statement, is
\* answered with 500 and an error description, changes nothing and ends the
\* request: the call is not repeated and no other call follows.  A look-up
\* that finds no row is answered with 404 and no error detail.
C12_OneResponse ==
    [][/\ OneResponseEach'
       /\ out'.status # 0 => Ended
       /\ out'.status = 0 => (sent' = sent /\ out'.error = "none")
       /\ out'.error # "none" => (out'.status = 500 /\ UNCHANGED store)
       /\ out'.status = 500 => out'.error # "none"
       /\ out'.status = 404 => (out'.error = "none" /\ out'.data = Null /\ UNCHANGED store)]_vars

\* Two requests were accepted and the look-up of the second one failed; each
\* of the two got one response and none awaits a call.
C12_Witness ==
    /\ out.stmt = "findOne" /\ out.status = 500 /\ out.error = "where"
    /\ nreq = 2 /\ sent = 2 /\ Awaiting = {}

\* A stored cita has the timestamp of body and its doctor with another
\* paciente, or its paciente with another doctor.
Overlaps(body) ==
    \E x \in Rows(cita) :
        /\ x.fecha_hora = ParseDate(body.fecha_hora)
        /\ \/ x.id_profesional = body.id_profesional /\ x.id_numeroCedula # body.id_numeroCedula
           \/ x.id_numeroCedula = body.id_numeroCedula /\ x.id_profesional # body.id_profesional

\* C13: createCita performs no conflict check: a payload whose triple is not
\* stored and whose doctor and paciente are stored is inserted and answered
\* with 201 also when a stored cita has the same timestamp and the same
\* doctor, or the same timestamp and the same paciente.
C13_DoubleBooking ==
    [][\A c \in Clients, body \in CitaBodies :
        (/\ out'.handler = "createCita" /\ createCita(c, body)
         /\ ValidNewCita(body) /\ Overlaps(body))
        => /\ out'.status = 201
           /\ cita' = cita (+) SetToBag({CitaRow(ParseDate(body.fecha_hora), body.id_profesional,
                                                 body.id_numeroCedula)})]_vars

\* Two createCita requests were answered with 201 and doctor 1 now has two
\* citas at the same time, with paciente 1 and with paciente 2.
C13_Witness ==
    /\ out.handler = "createCita" /\ out.status = 201
    /\ nreq = 2 /\ Cardinality(Rows(cita)) = 3
    /\ CitaRow("2024-01-02T10:00:00.000Z", 1, 1) \in Rows(cita)
    /\ CitaRow("2024-01-02T10:00:00.000Z", 1, 2) \in Rows(cita)

UniqueDoctors == \A d \in Rows(doctor) : doctor[d] = 1 /\ \A e \in Rows(doctor) : e.id_profesional = d.id_profesional => e = d

UniquePacientes == \A p \in Rows(paciente) : paciente[p] = 1 /\ \A e \in Rows(paciente) : e.id_numeroCedula = p.id_numeroCedula => e = p

\* C14: in every reachable state there is at most one doctor per
\* id_profesional and at most one paciente per id_numeroCedula; createDoctor
\* and createPaciente with a key that is already stored answer 500 and leave
\* the three tables unchanged.
C14_UniqueKeys ==
    [][/\ UniqueDoctors /\ UniqueDoctors'
       /\ UniquePacientes /\ UniquePacientes'
       /\ \A c \in Clients, body \in DoctorBodies :
            (/\ out'.handler = "createDoctor" /\ createDoctor(c, body)
             /\ "id_profesional" \in DOMAIN body /\ DoctorStored(body.id_profesional))
            => (out'.status = 500 /\ UNCHANGED store)
       /\ \A c \in Clients, body \in PacienteBodies :
            (/\ out'.handler = "createPaciente" /\ createPaciente(c, body)
             /\ "id_numeroCedula" \in DOMAIN body /\ PacienteStored(body.id_numeroCedula))
            => (out'.status = 500 /\ UNCHANGED store)]_vars

\* On an empty database a paciente was created and the second createPaciente
\* with its key was refused by the primary key.
C14_Witness ==
    /\ out.handler = "createPaciente" /\ out.status = 500 /\ out.error = "unique"
    /\ nreq = 2 /\ Cardinality(Rows(paciente)) = 1 /\ Rows(doctor) = {}

====
